---------------------------- MODULE Spec2Model ----------------------------
(***************************************************************************)
(* Model of dolfinx_materials/material/mfront.py: the MFrontMaterial class *)
(* (behaviour schema accessors, the double-buffered MaterialDataManager    *)
(* state s0/s1, the dictionary bridge and the batched integrate call).     *)
(*                                                                         *)
(* Python strings are modelled as sequences of one-character strings so   *)
(* that str.replace is computed, not assumed.  Arrays of shape (n, w) are  *)
(* modelled as sequences of n rows of w entries.                           *)
(***************************************************************************)
EXTENDS Integers, Sequences, FiniteSets, TLC

VARIABLES
    behaviour,     \* self.behaviour (with the options it was loaded with)
    data_manager,  \* self.data_manager, or NoDataManager before set_data_manager
    call,          \* the last call made on the object: operation, outcome, result
    views,         \* the arrays returned so far that share memory with data_manager
    nops           \* number of calls made so far

vars == <<behaviour, data_manager, call, views, nops>>

---------------------------------------------------------------------------
(* Bounds of the model *)

\* largest number of integration points handed to set_data_manager
NPoints == 2
\* array entries and scalars are drawn from 0..MaxVal
MaxVal == 1
\* length of the call sequences explored
MaxOps == 3

\* the value handed in that differs most from the zero a fresh data
\* manager holds
NonZero == {MaxVal}

---------------------------------------------------------------------------
(* Program constants *)

\* mfront.py:101-102, the temperature 293.15 in hundredths of a kelvin
DefaultTemperature == 29315
\* mfront.py:255, K[:, 0, 0] = 4
ConsistentTangentFlag == 4
\* mfront.py:256, K[:, 0, 1] = 1
HardcodedStressFlag == 1
\* mfront.py:257, K[:, 0, 2] = 1
HardcodedTangentFlag == 1
\* mfront.py:261, integrate_status < 1
SuccessThreshold == 1

---------------------------------------------------------------------------
(* Names, as sequences of characters *)

Strain == <<"S","t","r","a","i","n">>
Stress == <<"S","t","r","e","s","s">>
DeformationGradient == <<"D","e","f","G","r","a","d">>
FirstPiolaKirchhoffStress == <<"P","K","1">>
ElasticStrain == <<"E","l","S","t","r","a","i","n">>
BackStrain0 == <<"a","[","0","]">>
BackStrain1 == <<"a","[","1","]">>
YoungModulus == <<"Y","o","u","n","g">>
FibreModulus0 == <<"E","[","0","]">>
Temperature == <<"T","e","m","p","e","r","a","t","u","r","e">>
Dose0 == <<"d","[","0","]">>
TemperatureGradient == <<"g","T","[","0","]">>
HeatFlux == <<"j","[","0","]">>
Epsilon == <<"e","p","s","i","l","o","n">>
RelaxationTime == <<"t","a","u">>
Undeclared == <<"n","o","n","e">>

\* one declared variable: mgis Variable (name) and getVariableSize(svar, hypothesis)
Var(nm, sz) == [name |-> nm, size |-> sz]

---------------------------------------------------------------------------
(* Sequence helpers *)

RECURSIVE Sum(_)
Sum(s) == IF s = <<>> THEN 0 ELSE Head(s) + Sum(Tail(s))

Range(s) == {s[i] : i \in 1..Len(s)}

\* Python dict(zip(keys, values)): later keys overwrite earlier equal ones
RECURSIVE ZipDict(_, _, _)
ZipDict(keys, values, i) ==
    IF i > Len(keys) \/ i > Len(values) THEN <<>>
    ELSE LET rest == ZipDict(keys, values, i + 1) IN
         [k \in DOMAIN rest \cup {keys[i]} |->
             IF k \in DOMAIN rest THEN rest[k] ELSE values[i]]


\* Python {**a, **b}: entries of b overwrite those of a
MergeDict(a, b) ==
    [k \in DOMAIN a \cup DOMAIN b |-> IF k \in DOMAIN b THEN b[k] ELSE a[k]]

---------------------------------------------------------------------------
(* The behaviours of the library (what mgis reports for each of them) *)

SmallStrainElasticity ==
    [ is_finite_strain |-> FALSE,
      gradients |-> << Var(Strain, 4) >>,
      thermodynamic_forces |-> << Var(Stress, 4) >>,
      internal_state_variables |-> << >>,
      mps |-> << Var(YoungModulus, 1) >>,
      external_state_variables |-> << Var(Temperature, 1) >>,
      params |-> << Epsilon >>,
      tangent_operator_blocks |-> << <<Var(Stress, 4), Var(Strain, 4)>> >> ]

FiniteStrainPlasticity ==
    [ is_finite_strain |-> TRUE,
      gradients |-> << Var(DeformationGradient, 5) >>,
      thermodynamic_forces |-> << Var(FirstPiolaKirchhoffStress, 5) >>,
      internal_state_variables |->
          << Var(BackStrain0, 1), Var(ElasticStrain, 4), Var(BackStrain1, 1) >>,
      mps |-> << Var(YoungModulus, 1), Var(FibreModulus0, 1) >>,
      external_state_variables |-> << Var(Temperature, 1), Var(Dose0, 1) >>,
      params |-> << Epsilon, RelaxationTime >>,
      tangent_operator_blocks |->
          << <<Var(FirstPiolaKirchhoffStress, 5), Var(DeformationGradient, 5)>> >> ]

\* a generalised behaviour: two gradients, two fluxes, four tangent blocks
ThermoElasticity ==
    [ is_finite_strain |-> FALSE,
      gradients |-> << Var(Strain, 4), Var(TemperatureGradient, 2) >>,
      thermodynamic_forces |-> << Var(Stress, 4), Var(HeatFlux, 2) >>,
      internal_state_variables |-> << Var(BackStrain0, 1) >>,
      mps |-> << Var(FibreModulus0, 1), Var(YoungModulus, 1) >>,
      external_state_variables |-> << Var(Dose0, 1) >>,
      params |-> << RelaxationTime >>,
      tangent_operator_blocks |->
          << <<Var(Stress, 4), Var(Strain, 4)>>,
             <<Var(Stress, 4), Var(TemperatureGradient, 2)>>,
             <<Var(HeatFlux, 2), Var(Strain, 4)>>,
             <<Var(HeatFlux, 2), Var(TemperatureGradient, 2)>> >> ]

\* the standard (single tangent block) behaviours a data manager is built for
Library == {SmallStrainElasticity, FiniteStrainPlasticity}
\* every behaviour whose schema is queried
SchemaLibrary == Library \cup {ThermoElasticity}

\* mgis_bv.FiniteStrainBehaviourOptionsStressMeasure
StressMeasures == {"CAUCHY", "PK2", "PK1"}
\* mgis_bv.FiniteStrainBehaviourOptionsTangentOperator
TangentOperators == {"DSIG_DF", "DS_DEGL", "DPK1_DF"}
\* the conventions a behaviour is loaded with: a stress measure and the
\* tangent operator conjugate to it
FiniteStrainOptions ==
    { [stress_measure |-> "CAUCHY", tangent_operator |-> "DSIG_DF"],
      [stress_measure |-> "PK2", tangent_operator |-> "DS_DEGL"],
      [stress_measure |-> "PK1", tangent_operator |-> "DPK1_DF"] }
NoOptions == [stress_measure |-> "unset", tangent_operator |-> "unset"]

\* load_behaviour: what mgis loads from the library entry lib (the entry
\* named self.name at the path given); the finite strain options are
\* handed over only for a finite strain behaviour
load_behaviour(lib, stress_measure, tangent_operator) ==
    [f \in (DOMAIN lib) \cup {"options"} |->
        IF f # "options" THEN lib[f]
        ELSE IF lib.is_finite_strain
             THEN [stress_measure |-> stress_measure,
                   tangent_operator |-> tangent_operator]
             ELSE NoOptions]

\* update_parameters: behaviour.setParameter for every item, in order of
\* the keys; mgis refuses a name the behaviour does not declare.  The
\* parameter values live inside the mgis behaviour and are not tracked.
update_parameters(b, parameters) ==
    IF \A k \in DOMAIN parameters : \E i \in 1..Len(b.params) : b.params[i] = k
    THEN "none" ELSE "RuntimeError"

---------------------------------------------------------------------------
(* Name and size accessors of MFrontMaterial *)

\* str.replace(ch, "")
Remove(s, ch) == SelectSeq(s, LAMBDA c : c # ch)

RawNames(vs) == [i \in 1..Len(vs) |-> vs[i].name]
Sizes(vs) == [i \in 1..Len(vs) |-> vs[i].size]

\* the decorator: brackets are removed from every name of the list
filter_names(names) ==
    [i \in 1..Len(names) |-> Remove(Remove(names[i], "["), "]")]

parameter_names(b) == b.params
material_property_names(b) == RawNames(b.mps)
external_state_variable_names(b) == filter_names(RawNames(b.external_state_variables))
internal_state_variable_names(b) == filter_names(RawNames(b.internal_state_variables))
gradient_names(b) == filter_names(RawNames(b.gradients))
flux_names(b) == filter_names(RawNames(b.thermodynamic_forces))

material_property_sizes(b) == Sizes(b.mps)
external_state_variable_sizes(b) == Sizes(b.external_state_variables)
internal_state_variable_sizes(b) == Sizes(b.internal_state_variables)
has_internal_state_variables(b) == Len(b.internal_state_variables) > 0
gradient_sizes(b) == Sizes(b.gradients)
flux_sizes(b) == Sizes(b.thermodynamic_forces)

gradients(b) == ZipDict(gradient_names(b), gradient_sizes(b), 1)
fluxes(b) == ZipDict(flux_names(b), flux_sizes(b), 1)
internal_state_variables(b) ==
    ZipDict(internal_state_variable_names(b), internal_state_variable_sizes(b), 1)
variables(b) ==
    MergeDict(MergeDict(gradients(b), fluxes(b)), internal_state_variables(b))

\* Python values of the tangent block mapping
PyTuple(items) == [py |-> "tuple", items |-> items]
PyInt(v) == [py |-> "int", v |-> v]

tangent_block_names(b) ==
    [i \in 1..Len(b.tangent_operator_blocks) |->
        << b.tangent_operator_blocks[i][1].name,
           b.tangent_operator_blocks[i][2].name >>]
\* a faulty variant: the two sizes of a block are exchanged
tangent_block_sizes_swapped(b) ==
    [i \in 1..Len(b.tangent_operator_blocks) |->
        PyTuple(<< b.tangent_operator_blocks[i][2].size,
                   b.tangent_operator_blocks[i][1].size >>)]

tangent_block_sizes(b) ==
    [i \in 1..Len(b.tangent_operator_blocks) |->
        PyTuple(<< b.tangent_operator_blocks[i][1].size,
                   b.tangent_operator_blocks[i][2].size >>)]
tangent_blocks(b) == ZipDict(tangent_block_names(b), tangent_block_sizes(b), 1)

---------------------------------------------------------------------------
(* Python values handed in and out *)

PyArray(data) == [py |-> "ndarray", data |-> data]
PyList(items) == [py |-> "list", items |-> items]
PyDict(d) == [py |-> "dict", d |-> d]
PyFloat(v) == [py |-> "float", v |-> v]
PyNone == [py |-> "None"]

\* an (n, w) array
Zeros(n, w) == [p \in 1..n |-> [j \in 1..w |-> 0]]
\* the (n, w) arrays used as inputs: constant ones (k = 0) and ones whose
\* entries differ from point to point and from column to column (k = 1)
Ramp(n, w, c, k) == [p \in 1..n |-> [j \in 1..w |-> (c + k * (p + j)) % (MaxVal + 1)]]
\* per-point arrays of a scalar quantity
Arrays1D(n) == {[p \in 1..n |-> (1 + p) % (MaxVal + 1)]}

\* the values argument of the property and external state variable setters
ValuesInputs(n) ==
    {PyFloat(v) : v \in NonZero} \cup {PyArray(a) : a \in Arrays1D(n)}

---------------------------------------------------------------------------
(* mgis_bv objects, as far as MFrontMaterial uses them *)

\* one MaterialStateManager (s0 or s1) of a MaterialDataManager of n points
MaterialStateManager(b, n) ==
    [ gradients |-> Zeros(n, Sum(gradient_sizes(b))),
      thermodynamic_forces |-> Zeros(n, Sum(flux_sizes(b))),
      internal_state_variables |-> Zeros(n, Sum(internal_state_variable_sizes(b))),
      material_properties |-> << >>,
      external_state_variables |-> << >> ]

NoDataManager ==
    [ exists |-> FALSE, n |-> 0, K |-> << >>,
      s0 |-> [ gradients |-> << >>, thermodynamic_forces |-> << >>,
               internal_state_variables |-> << >>,
               material_properties |-> << >>, external_state_variables |-> << >> ],
      s1 |-> [ gradients |-> << >>, thermodynamic_forces |-> << >>,
               internal_state_variables |-> << >>,
               material_properties |-> << >>, external_state_variables |-> << >> ] ]

\* mgis_bv.MaterialDataManager(behaviour, ngauss): two zero states, no tangent yet
MaterialDataManager(b, ngauss) ==
    [ exists |-> TRUE, n |-> ngauss, K |-> << >>,
      s0 |-> MaterialStateManager(b, ngauss),
      s1 |-> MaterialStateManager(b, ngauss) ]

\* what a state manager stores for a property or an external state variable
Uniform(v) == [storage |-> "uniform", value |-> v]
LocalStorage(values) == [storage |-> "local", values |-> values]

\* type(values) in [int, float]
IsScalar(values) == values.py \in {"int", "float"}

StoredValue(values) ==
    IF IsScalar(values) THEN Uniform(values.v) ELSE LocalStorage(values.data)

\* mgis_bv.setMaterialProperty(s, name, values[, LocalStorage])
setMaterialProperty(s, name, values) ==
    [s EXCEPT !.material_properties =
        MergeDict(s.material_properties, name :> StoredValue(values))]

\* mgis_bv.setExternalStateVariable(state, name, values[, LocalStorage])
setExternalStateVariable(s, name, values) ==
    [s EXCEPT !.external_state_variables =
        MergeDict(s.external_state_variables, name :> StoredValue(values))]

\* data_manager.allocateArrayOfTangentOperatorBlocks(): allocated once, zeroed
allocateArrayOfTangentOperatorBlocks(b, dm) ==
    IF dm.K # << >> THEN dm
    ELSE [dm EXCEPT !.K =
            [p \in 1..dm.n |->
                [r \in 1..Sum(flux_sizes(b)) |->
                    [c \in 1..Sum(gradient_sizes(b)) |-> 0]]]]

\* the outcomes of one batched kernel call: the status it returns and the
\* values it leaves in the fluxes, internal state variables and tangent
\* (they differ from entry to entry, starting from fill)
KernelOutcomes == {[status |-> st, fill |-> v] : st \in {-1, 0, 1}, v \in NonZero}

\* mgis_bv.integrate(data_manager, integration_type, dt, 0, n): writes the
\* current state and the tangent, never the previous state
Kernel(dm, o) ==
    [dm EXCEPT
        !.s1.thermodynamic_forces =
            [p \in DOMAIN @ |->
                [j \in DOMAIN @[p] |-> (o.fill + p + j) % (MaxVal + 1)]],
        !.s1.internal_state_variables =
            [p \in DOMAIN @ |->
                [j \in DOMAIN @[p] |-> (o.fill + p + j) % (MaxVal + 1)]],
        !.K = [p \in DOMAIN @ |-> [r \in DOMAIN @[p] |->
                  [c \in DOMAIN @[p][r] |-> (o.fill + p + r + c) % (MaxVal + 1)]]]]

---------------------------------------------------------------------------
(* The record kept of the last call *)

NoKernelCall == [called |-> FALSE, status |-> 0, K_in |-> << >>]

Returned(op, arg, ret) ==
    [op |-> op, arg |-> arg, raised |-> "none", ret |-> ret,
     warned |-> FALSE, kernel |-> NoKernelCall]
Raised(op, arg, exc) ==
    [op |-> op, arg |-> arg, raised |-> exc, ret |-> PyNone,
     warned |-> FALSE, kernel |-> NoKernelCall]

---------------------------------------------------------------------------
(* Material properties and external state variables *)

\* mgis looks a property or a variable up by its declared (raw) name
Declared(vs, name) == \E i \in 1..Len(vs) : vs[i].name = name

\* a faulty variant: only the current state receives the property
PropertyTargetsCurrentOnly == {"s1"}

\* the state managers update_material_property loops over
PropertyTargets == {"s0", "s1"}

update_material_property(b, dm, name, values) ==
    IF ~dm.exists THEN [dm |-> dm, raised |-> "AttributeError"]
    ELSE IF ~Declared(b.mps, name) THEN [dm |-> dm, raised |-> "RuntimeError"]
    ELSE [dm |-> [dm EXCEPT
                    !.s0 = IF "s0" \in PropertyTargets
                           THEN setMaterialProperty(@, name, values) ELSE @,
                    !.s1 = IF "s1" \in PropertyTargets
                           THEN setMaterialProperty(@, name, values) ELSE @],
          raised |-> "none"]

_set_external_state_variable(b, state, name, values) ==
    IF ~Declared(b.external_state_variables, name)
    THEN [state |-> state, raised |-> "RuntimeError"]
    ELSE [state |-> setExternalStateVariable(state, name, values), raised |-> "none"]

update_external_state_variable(b, dm, name, values) ==
    IF ~dm.exists THEN [dm |-> dm, raised |-> "AttributeError"]
    ELSE LET r == _set_external_state_variable(b, dm.s1, name, values) IN
         [dm |-> [dm EXCEPT !.s1 = r.state], raised |-> r.raised]

initialize_external_state_variable(b, dm, name, values) ==
    IF ~dm.exists THEN [dm |-> dm, raised |-> "AttributeError"]
    ELSE LET r == _set_external_state_variable(b, dm.s0, name, values) IN
         [dm |-> [dm EXCEPT !.s0 = r.state], raised |-> r.raised]

\* a new data manager, then the default temperature in s0 and in s1; the
\* data manager stays assigned when a setter raises
set_data_manager(b, ngauss) ==
    LET fresh == MaterialDataManager(b, ngauss)
        i == initialize_external_state_variable(
                 b, fresh, Temperature, PyFloat(DefaultTemperature))
        u == update_external_state_variable(
                 b, i.dm, Temperature, PyFloat(DefaultTemperature))
    IN IF i.raised # "none" THEN i ELSE u

---------------------------------------------------------------------------
(* integrate *)

\* the selector values the comments of integrate give for each convention:
\* 0 - Cauchy, 1 - PK2, 2 - PK1
StressMeasureFlag(sm) ==
    CASE sm = "CAUCHY" -> 0 [] sm = "PK2" -> 1 [] sm = "PK1" -> 2
\* 0 - DCauchy/DDefGrad, 1 - DPK2/DS_DEGL, 2 - PK1/DDefGrad
TangentOperatorFlag(to) ==
    CASE to = "DSIG_DF" -> 0 [] to = "DS_DEGL" -> 1 [] to = "DPK1_DF" -> 2

\* the three selectors written at K[:, 0, 0], K[:, 0, 1] and K[:, 0, 2]
SelectorFlags(b) ==
    << ConsistentTangentFlag, HardcodedStressFlag, HardcodedTangentFlag >>

WriteSelectors(b, K) ==
    [p \in DOMAIN K |->
        [r \in DOMAIN K[p] |->
            [c \in DOMAIN K[p][r] |->
                IF r = 1 /\ c <= 3 THEN SelectorFlags(b)[c] ELSE K[p][r][c]]]]

\* the selectors the kernel finds at K[p, 0, 0..2] of every point p
SelectorsOf(K) == [p \in DOMAIN K |-> SubSeq(K[p][1], 1, 3)]

\* a faulty variant: the status 0 is taken for a success
IntegrationFailedBelowZero(status) == status < 0

\* integrate_status < 1
IntegrationFailed(status) == status < SuccessThreshold

\* K.reshape((K.shape[0], -1)): one row-major row per point
Reshape(K) ==
    [p \in DOMAIN K |->
        [q \in 1..(Len(K[p]) * Len(K[p][1])) |->
            K[p][((q - 1) \div Len(K[p][1])) + 1][((q - 1) % Len(K[p][1])) + 1]]]

\* a faulty variant: the new gradients land in the previous state
WriteGradientsIntoPrevious(dm, eps) == [dm EXCEPT !.s0.gradients = eps]

\* a faulty variant: the new gradients land in both states
WriteGradientsIntoBoth(dm, eps) ==
    [dm EXCEPT !.s0.gradients = eps, !.s1.gradients = eps]

\* s1.gradients[:, :] = eps
WriteGradients(dm, eps) == [dm EXCEPT !.s1.gradients = eps]

integrate(b, dm, eps, o) ==
    IF ~dm.exists
    THEN [dm |-> dm, call |-> Raised("integrate", PyArray(eps), "AttributeError")]
    ELSE LET d1 == WriteGradients(dm, eps)
             d2 == allocateArrayOfTangentOperatorBlocks(b, d1)
             d3 == [d2 EXCEPT !.K = WriteSelectors(b, d2.K)]
             d4 == Kernel(d3, o)
             isv == IF has_internal_state_variables(b)
                    THEN PyArray(d4.s1.internal_state_variables)
                    ELSE PyList(<< >>)
         IN [dm |-> d4,
             call |-> [op |-> "integrate", arg |-> PyArray(eps), raised |-> "none",
                       ret |-> PyTuple(<< PyArray(d4.s1.thermodynamic_forces),
                                          isv,
                                          PyArray(Reshape(d4.K)) >>),
                       warned |-> IntegrationFailed(o.status),
                       kernel |-> [called |-> TRUE, status |-> o.status,
                                   K_in |-> SelectorsOf(d3.K)]]]

---------------------------------------------------------------------------
(* The dictionary bridge *)

\* arr[:, buff : buff + block_shape] = value
SetBlock(arr, buff, block_shape, value) ==
    [p \in DOMAIN arr |->
        [j \in DOMAIN arr[p] |->
            IF buff < j /\ j <= buff + block_shape
            THEN value[p][j - buff] ELSE arr[p][j]]]

\* arr[:, buff : buff + block_shape]
GetBlock(arr, buff, block_shape) ==
    [p \in DOMAIN arr |-> [j \in 1..block_shape |-> arr[p][buff + j]]]

\* s in state
InState(s, state) == s \in DOMAIN state

\* a faulty variant: the block of a name missing from state is zeroed
RECURSIVE SetFamilyClearing(_, _, _, _, _, _)
SetFamilyClearing(arr, names, sizes, state, i, buff) ==
    IF i > Len(names) THEN arr
    ELSE SetFamilyClearing(
             SetBlock(arr, buff, sizes[i],
                      IF InState(names[i], state) THEN state[names[i]]
                      ELSE Zeros(Len(arr), sizes[i])),
             names, sizes, state, i + 1, buff + sizes[i])

\* one loop of set_initial_state_dict, from its i-th name on
RECURSIVE SetFamily(_, _, _, _, _, _)
SetFamily(arr, names, sizes, state, i, buff) ==
    IF i > Len(names) THEN arr
    ELSE SetFamily(IF InState(names[i], state)
                   THEN SetBlock(arr, buff, sizes[i], state[names[i]])
                   ELSE arr,
                   names, sizes, state, i + 1, buff + sizes[i])

\* the three loops of set_initial_state_dict on one state manager
WriteState(s, b, state) ==
    [s EXCEPT
        !.gradients =
            SetFamily(@, gradient_names(b), gradient_sizes(b), state, 1, 0),
        !.thermodynamic_forces =
            SetFamily(@, flux_names(b), flux_sizes(b), state, 1, 0),
        !.internal_state_variables =
            SetFamily(@, internal_state_variable_names(b),
                      internal_state_variable_sizes(b), state, 1, 0)]

\* self.data_manager is read only under `if s in state`: a dictionary that
\* holds no declared name never reaches it
TouchesDataManager(b, state) ==
    \/ \E i \in 1..Len(gradient_names(b)) : InState(gradient_names(b)[i], state)
    \/ \E i \in 1..Len(flux_names(b)) : InState(flux_names(b)[i], state)
    \/ \E i \in 1..Len(internal_state_variable_names(b)) :
          InState(internal_state_variable_names(b)[i], state)

\* a faulty variant: the writes go to the current state
set_initial_state_dict_current(b, dm, state) ==
    IF ~dm.exists
    THEN [dm |-> dm,
          raised |-> IF TouchesDataManager(b, state) THEN "AttributeError" ELSE "none"]
    ELSE [dm |-> [dm EXCEPT !.s1 = WriteState(@, b, state)], raised |-> "none"]

\* every write goes to self.data_manager.s0
set_initial_state_dict(b, dm, state) ==
    IF ~dm.exists
    THEN [dm |-> dm,
          raised |-> IF TouchesDataManager(b, state) THEN "AttributeError" ELSE "none"]
    ELSE [dm |-> [dm EXCEPT !.s0 = WriteState(@, b, state)], raised |-> "none"]

\* a faulty variant: the offset is not advanced from one name to the next
RECURSIVE GetFamilyNoAdvance(_, _, _, _, _, _)
GetFamilyNoAdvance(arr, names, sizes, state, i, buff) ==
    IF i > Len(names) THEN state
    ELSE GetFamilyNoAdvance(arr, names, sizes,
                   MergeDict(state, names[i] :> GetBlock(arr, buff, sizes[i])),
                   i + 1, buff)

\* one loop of get_final_state_dict, from its i-th name on, adding to state
RECURSIVE GetFamily(_, _, _, _, _, _)
GetFamily(arr, names, sizes, state, i, buff) ==
    IF i > Len(names) THEN state
    ELSE GetFamily(arr, names, sizes,
                   MergeDict(state, names[i] :> GetBlock(arr, buff, sizes[i])),
                   i + 1, buff + sizes[i])

\* the three loops of get_final_state_dict on one state manager
ReadState(s, b) ==
    GetFamily(s.internal_state_variables,
              internal_state_variable_names(b), internal_state_variable_sizes(b),
              GetFamily(s.thermodynamic_forces, flux_names(b), flux_sizes(b),
                        GetFamily(s.gradients, gradient_names(b), gradient_sizes(b),
                                  << >>, 1, 0),
                        1, 0),
              1, 0)

\* every read is of self.data_manager.s1
get_final_state_dict(b, dm) == ReadState(dm.s1, b)

---------------------------------------------------------------------------
(* Rotations *)

\* The arrays integrate and get_final_state_dict return are views of the
\* current state and of the tangent: an array is described by the buffer
\* it shares memory with and the columns it covers.
View(field, offset, width) == [field |-> field, offset |-> offset, width |-> width]
\* an array of the caller's own
NoView == View("none", 0, 0)

\* the views handed out by the call c on a behaviour b: integrate returns
\* s1.thermodynamic_forces, s1.internal_state_variables (when there are
\* any) and a reshaped K; get_final_state_dict returns the columns of every
\* gradient, flux and internal state variable of s1
SlicesOf(field, sizes) ==
    { View(field, Sum(SubSeq(sizes, 1, i - 1)), sizes[i]) : i \in 1..Len(sizes) }

HandedOut(b, c) ==
    IF c.raised # "none" THEN {}
    ELSE IF c.op = "integrate"
    THEN { View("thermodynamic_forces", 0, Sum(flux_sizes(b))), View("K", 0, 0) }
         \cup (IF has_internal_state_variables(b)
               THEN { View("internal_state_variables", 0,
                           Sum(internal_state_variable_sizes(b))) }
               ELSE {})
    ELSE IF c.op = "get_final_state_dict"
    THEN SlicesOf("gradients", gradient_sizes(b))
         \cup SlicesOf("thermodynamic_forces", flux_sizes(b))
         \cup SlicesOf("internal_state_variables", internal_state_variable_sizes(b))
    ELSE {}

\* what mgis leaves in the array it rotates: the array itself under the
\* identity rotation (0), other values under another rotation
RotationOutcomes == {0, 1}
Rotated(arr, r) ==
    [p \in DOMAIN arr |-> [j \in DOMAIN arr[p] |-> (arr[p][j] + r) % (MaxVal + 1)]]

\* mgis rotates the array in place: the buffer a view shares memory with
\* changes with it
RotateInPlace(dm, view, r) ==
    IF view.field = "none" THEN dm
    ELSE IF view.field = "K"
    THEN [dm EXCEPT !.K = [p \in DOMAIN @ |-> Rotated(@[p], r)]]
    ELSE [dm EXCEPT !.s1[view.field] =
            SetBlock(@, view.offset, view.width,
                     Rotated(GetBlock(@, view.offset, view.width), r))]

rotate_gradients(dm, gradient_vals, rotation_values) ==
    RotateInPlace(dm, gradient_vals, rotation_values)
rotate_fluxes(dm, flux_vals, rotation_values) ==
    RotateInPlace(dm, flux_vals, rotation_values)
rotate_tangent_operator(dm, Ct_vals, rotation_values) ==
    RotateInPlace(dm, Ct_vals, rotation_values)

---------------------------------------------------------------------------
(* Inputs of the calls *)

\* the sanitized names of the gradients, fluxes and internal state variables
StateNames(b) ==
    Range(gradient_names(b)) \cup Range(flux_names(b))
        \cup Range(internal_state_variable_names(b))

\* keys that name no variable: an unknown name and a raw (bracketed) one
ForeignKeys == {Undeclared, BackStrain0}

\* dictionaries handed to set_initial_state_dict for n points: the empty one,
\* one key (declared or not), and one covering every variable; every value
\* has the shape (n, size) of the variable it is for
StateDicts(b, n) ==
    { << >> }
    \cup { k :> Ramp(n, variables(b)[k], c, 1) : k \in StateNames(b), c \in NonZero }
    \cup { k :> Ramp(n, 1, 1, 1) : k \in ForeignKeys }
    \cup { [k \in StateNames(b) |-> Ramp(n, variables(b)[k], 1, 1)] }

\* (name, values) pairs handed to the property and external state variable
\* setters: every declared name with every value, and an undeclared name
SetterInputs(vs, n) ==
    { [name |-> nm, values |-> v] : nm \in Range(RawNames(vs)), v \in ValuesInputs(n) }
    \cup { [name |-> Undeclared, values |-> PyFloat(1)] }

\* number of points of the arrays handed in (one before any data manager)
PointsOf(dm) == IF dm.exists THEN dm.n ELSE 1

\* dictionaries handed to update_parameters
ParameterDicts(b) ==
    { << >>, b.params[1] :> 1, Undeclared :> 1 }

\* arrays handed to a rotation: one of the caller's own, or any of the
\* views the caller holds
RotationInputs(held) == {NoView} \cup held

---------------------------------------------------------------------------
(* The state machine: calls on one MFrontMaterial object *)

Init ==
    /\ behaviour \in {load_behaviour(lib, o.stress_measure, o.tangent_operator) :
                        lib \in Library, o \in FiniteStrainOptions}
    /\ data_manager = NoDataManager
    /\ call = Returned("__init__", PyNone, PyNone)
    /\ views = {}
    /\ nops = 0

SetDataManager ==
    /\ nops < MaxOps
    /\ \E ngauss \in {1, NPoints} :
         LET r == set_data_manager(behaviour, ngauss) IN
         /\ data_manager' = r.dm
         /\ call' = IF r.raised = "none"
                    THEN Returned("set_data_manager", PyInt(ngauss), PyNone)
                    ELSE Raised("set_data_manager", PyInt(ngauss), r.raised)
    /\ views' = {}
    /\ nops' = nops + 1
    /\ UNCHANGED behaviour

UpdateMaterialProperty ==
    /\ nops < MaxOps
    /\ \E arg \in SetterInputs(behaviour.mps, PointsOf(data_manager)) :
         LET r == update_material_property(behaviour, data_manager,
                                           arg.name, arg.values) IN
         /\ data_manager' = r.dm
         /\ call' = IF r.raised = "none"
                    THEN Returned("update_material_property", arg, PyNone)
                    ELSE Raised("update_material_property", arg, r.raised)
    /\ views' = views \cup HandedOut(behaviour, call')
    /\ nops' = nops + 1
    /\ UNCHANGED behaviour

UpdateExternalStateVariable ==
    /\ nops < MaxOps
    /\ \E arg \in SetterInputs(behaviour.external_state_variables,
                               PointsOf(data_manager)) :
         LET r == update_external_state_variable(behaviour, data_manager,
                   arg.name, arg.values) IN
         /\ data_manager' = r.dm
         /\ call' = IF r.raised = "none"
                    THEN Returned("update_external_state_variable", arg, PyNone)
                    ELSE Raised("update_external_state_variable", arg, r.raised)
    /\ views' = views \cup HandedOut(behaviour, call')
    /\ nops' = nops + 1
    /\ UNCHANGED behaviour

InitializeExternalStateVariable ==
    /\ nops < MaxOps
    /\ \E arg \in SetterInputs(behaviour.external_state_variables,
                               PointsOf(data_manager)) :
         LET r == initialize_external_state_variable(behaviour, data_manager,
                   arg.name, arg.values) IN
         /\ data_manager' = r.dm
         /\ call' = IF r.raised = "none"
                    THEN Returned("initialize_external_state_variable", arg, PyNone)
                    ELSE Raised("initialize_external_state_variable", arg, r.raised)
    /\ views' = views \cup HandedOut(behaviour, call')
    /\ nops' = nops + 1
    /\ UNCHANGED behaviour

Integrate ==
    /\ nops < MaxOps
    /\ \E c \in {0, MaxVal}, o \in KernelOutcomes :
         LET eps == Ramp(PointsOf(data_manager), Sum(gradient_sizes(behaviour)), c, 1)
             r == integrate(behaviour, data_manager, eps, o) IN
         /\ data_manager' = r.dm
         /\ call' = r.call
    /\ views' = views \cup HandedOut(behaviour, call')
    /\ nops' = nops + 1
    /\ UNCHANGED behaviour

SetInitialStateDict ==
    /\ nops < MaxOps
    /\ \E state \in StateDicts(behaviour, PointsOf(data_manager)) :
         LET r == set_initial_state_dict(behaviour, data_manager, state) IN
         /\ data_manager' = r.dm
         /\ call' = IF r.raised = "none"
                    THEN Returned("set_initial_state_dict", PyDict(state), PyNone)
                    ELSE Raised("set_initial_state_dict", PyDict(state), r.raised)
    /\ views' = views \cup HandedOut(behaviour, call')
    /\ nops' = nops + 1
    /\ UNCHANGED behaviour

GetFinalStateDict ==
    /\ nops < MaxOps
    /\ call' = IF data_manager.exists
               THEN Returned("get_final_state_dict", PyNone,
                             PyDict(get_final_state_dict(behaviour, data_manager)))
               ELSE Raised("get_final_state_dict", PyNone, "AttributeError")
    /\ views' = views \cup HandedOut(behaviour, call')
    /\ nops' = nops + 1
    /\ UNCHANGED <<behaviour, data_manager>>

\* load_behaviour(self.path, stress_measure, tangent_operator): a newly
\* loaded behaviour replaces self.behaviour; the data manager, built on the
\* behaviour loaded before, stays
LoadBehaviour ==
    /\ nops < MaxOps
    /\ \E o \in FiniteStrainOptions :
         /\ behaviour' = load_behaviour(behaviour, o.stress_measure,
                                        o.tangent_operator)
         /\ call' = Returned("load_behaviour", o, PyNone)
    /\ views' = views \cup HandedOut(behaviour, call')
    /\ nops' = nops + 1
    /\ UNCHANGED data_manager

UpdateParameters ==
    /\ nops < MaxOps
    /\ \E parameters \in ParameterDicts(behaviour) :
         LET raised == update_parameters(behaviour, parameters) IN
         call' = IF raised = "none"
                 THEN Returned("update_parameters", PyDict(parameters), PyNone)
                 ELSE Raised("update_parameters", PyDict(parameters), raised)
    /\ views' = views \cup HandedOut(behaviour, call')
    /\ nops' = nops + 1
    /\ UNCHANGED <<behaviour, data_manager>>

RotateGradients ==
    /\ nops < MaxOps
    /\ \E v \in RotationInputs(views),
          r \in RotationOutcomes :
         /\ data_manager' = rotate_gradients(data_manager, v, r)
         /\ call' = Returned("rotate_gradients", [array |-> v, rotation |-> r], PyNone)
    /\ views' = views \cup HandedOut(behaviour, call')
    /\ nops' = nops + 1
    /\ UNCHANGED behaviour

RotateFluxes ==
    /\ nops < MaxOps
    /\ \E v \in RotationInputs(views),
          r \in RotationOutcomes :
         /\ data_manager' = rotate_fluxes(data_manager, v, r)
         /\ call' = Returned("rotate_fluxes", [array |-> v, rotation |-> r], PyNone)
    /\ views' = views \cup HandedOut(behaviour, call')
    /\ nops' = nops + 1
    /\ UNCHANGED behaviour

RotateTangentOperator ==
    /\ nops < MaxOps
    /\ \E v \in RotationInputs(views),
          r \in RotationOutcomes :
         /\ data_manager' = rotate_tangent_operator(data_manager, v, r)
         /\ call' = Returned("rotate_tangent_operator",
                             [array |-> v, rotation |-> r], PyNone)
    /\ views' = views \cup HandedOut(behaviour, call')
    /\ nops' = nops + 1
    /\ UNCHANGED behaviour

Next ==
    \/ LoadBehaviour
    \/ UpdateParameters
    \/ RotateGradients
    \/ RotateFluxes
    \/ RotateTangentOperator
    \/ SetDataManager
    \/ UpdateMaterialProperty
    \/ UpdateExternalStateVariable
    \/ InitializeExternalStateVariable
    \/ Integrate
    \/ SetInitialStateDict
    \/ GetFinalStateDict

Spec == Init /\ [][Next]_vars

---------------------------------------------------------------------------
(* The schema accessors, queried on a loaded behaviour *)

PyBool(v) == [py |-> "bool", v |-> v]

Accessors ==
    { "parameter_names", "material_property_names",
      "external_state_variable_names", "internal_state_variable_names",
      "gradient_names", "flux_names",
      "gradients", "fluxes", "internal_state_variables", "variables",
      "material_property_sizes", "external_state_variable_sizes",
      "internal_state_variable_sizes", "has_internal_state_variables",
      "gradient_sizes", "flux_sizes",
      "tangent_block_names", "tangent_block_sizes", "tangent_blocks" }

AccessorValue(b, a) ==
    CASE a = "parameter_names" -> PyList(parameter_names(b))
      [] a = "material_property_names" -> PyList(material_property_names(b))
      [] a = "external_state_variable_names" -> PyList(external_state_variable_names(b))
      [] a = "internal_state_variable_names" -> PyList(internal_state_variable_names(b))
      [] a = "gradient_names" -> PyList(gradient_names(b))
      [] a = "flux_names" -> PyList(flux_names(b))
      [] a = "gradients" -> PyDict(gradients(b))
      [] a = "fluxes" -> PyDict(fluxes(b))
      [] a = "internal_state_variables" -> PyDict(internal_state_variables(b))
      [] a = "variables" -> PyDict(variables(b))
      [] a = "material_property_sizes" -> PyList(material_property_sizes(b))
      [] a = "external_state_variable_sizes" -> PyList(external_state_variable_sizes(b))
      [] a = "internal_state_variable_sizes" -> PyList(internal_state_variable_sizes(b))
      [] a = "has_internal_state_variables" -> PyBool(has_internal_state_variables(b))
      [] a = "gradient_sizes" -> PyList(gradient_sizes(b))
      [] a = "flux_sizes" -> PyList(flux_sizes(b))
      [] a = "tangent_block_names" -> PyList(tangent_block_names(b))
      [] a = "tangent_block_sizes" -> PyList(tangent_block_sizes(b))
      [] a = "tangent_blocks" -> PyDict(tangent_blocks(b))

SchemaInit ==
    /\ behaviour \in {load_behaviour(lib, sm, to) :
                        lib \in SchemaLibrary, sm \in StressMeasures,
                        to \in TangentOperators}
    /\ data_manager = NoDataManager
    /\ call = Returned("__init__", PyNone, PyNone)
    /\ views = {}
    /\ nops = 0

Query ==
    /\ \E a \in Accessors : call' = Returned(a, PyNone, AccessorValue(behaviour, a))
    /\ UNCHANGED <<behaviour, data_manager, views, nops>>

SchemaNext == Query

SchemaSpec == SchemaInit /\ [][SchemaNext]_vars

---------------------------------------------------------------------------
(* Vocabulary of the properties *)

\* the step is a call of op
IsCall(op) == nops' = nops + 1 /\ call'.op = op

\* the previous-state values of the gradients, fluxes and internal variables
PreviousValues(dm) ==
    << dm.s0.gradients, dm.s0.thermodynamic_forces, dm.s0.internal_state_variables >>

\* the three families of a state manager: field, sanitized names, sizes
Families(b) ==
    << [field |-> "gradients", names |-> gradient_names(b),
        sizes |-> gradient_sizes(b)],
       [field |-> "thermodynamic_forces", names |-> flux_names(b),
        sizes |-> flux_sizes(b)],
       [field |-> "internal_state_variables",
        names |-> internal_state_variable_names(b),
        sizes |-> internal_state_variable_sizes(b)] >>

\* where the i-th variable of a family starts: the sizes before it, summed
Offset(sizes, i) == Sum(SubSeq(sizes, 1, i - 1))

\* the columns o+1 .. o+size of every row of arr
Columns(arr, o, size) == [p \in DOMAIN arr |-> SubSeq(arr[p], o + 1, o + size)]

\* the columns of the i-th variable of family f in state manager s
VariableColumns(s, f, i) == Columns(s[f.field], Offset(f.sizes, i), f.sizes[i])

HasBracket(name) == \E i \in 1..Len(name) : name[i] \in {"[", "]"}

---------------------------------------------------------------------------
(* C1: a call of integrate, whatever status the kernel returns, leaves the  *)
(* previous state (gradients, fluxes, internal state variables of s0)       *)
(* exactly as it was; only the current state and the tangent may change.    *)

C1_IntegrateKeepsPreviousState ==
    [][IsCall("integrate") =>
          /\ data_manager'.s0 = data_manager.s0
          /\ data_manager'.n = data_manager.n
          /\ data_manager'.exists = data_manager.exists]_vars

\* a failed integration on a data manager whose previous state is not the
\* zero state and differs from the current one
C1_Witness ==
    /\ call.op = "integrate"
    /\ call.kernel.called
    /\ IntegrationFailed(call.kernel.status)
    /\ \E p \in 1..data_manager.n, j \in 1..Len(data_manager.s0.gradients[1]) :
          /\ data_manager.s0.gradients[p][j] # 0
          /\ data_manager.s0.gradients[p][j] # data_manager.s1.gradients[p][j]

---------------------------------------------------------------------------
(* C2, as stated: when the kernel reports a failure integrate does not      *)
(* raise, and the result it returns carries the status: one of the values   *)
(* returned is the kernel's status, non-success after a failure and success *)
(* after a success.                                                         *)

C2_ResultCarriesStatus ==
    (call.op = "integrate" /\ call.kernel.called) =>
        /\ call.raised = "none"
        /\ \E i \in 1..Len(call.ret.items) :
              call.ret.items[i] = PyInt(call.kernel.status)

(* C2, amended: whatever the kernel's status, integrate does not raise and  *)
(* returns the same triple (current fluxes, current internal state          *)
(* variables or an empty list, one flat tangent row per point); the triple  *)
(* holds no status, and a failure (status -1 or 0) is signalled only by the *)
(* warning, which is issued exactly then.                                   *)

C2_FailureIsWarnedNotReturned ==
    (call.op = "integrate" /\ call.kernel.called) =>
        /\ call.raised = "none"
        /\ call.ret.py = "tuple"
        /\ Len(call.ret.items) = 3
        /\ call.ret.items[1] = PyArray(data_manager.s1.thermodynamic_forces)
        /\ call.ret.items[2] =
              IF behaviour.internal_state_variables = << >>
              THEN PyList(<< >>)
              ELSE PyArray(data_manager.s1.internal_state_variables)
        /\ call.ret.items[3].py = "ndarray"
        /\ \A p \in 1..data_manager.n :
              /\ Len(call.ret.items[3].data[p]) =
                    Len(data_manager.K[p]) * Len(data_manager.K[p][1])
              /\ \A r \in 1..Len(data_manager.K[p]) :
                    \A c \in 1..Len(data_manager.K[p][r]) :
                       call.ret.items[3].data[p][(r - 1) * Len(data_manager.K[p][r]) + c]
                          = data_manager.K[p][r][c]
        /\ \A i \in 1..3 : call.ret.items[i].py # "int"
        /\ call.warned <=> call.kernel.status \in {-1, 0}

\* an integration the kernel fails with status 0, on several points
C2_Witness ==
    /\ call.op = "integrate"
    /\ call.kernel.called
    /\ call.kernel.status = 0
    /\ call.warned
    /\ data_manager.n = NPoints

---------------------------------------------------------------------------
(* C3: in every integrate call on a finite strain behaviour, the selectors  *)
(* the kernel finds in the tangent storage of every point are those of the  *)
(* stress measure and tangent operator the behaviour was loaded with.       *)

C3_SelectorsMatchConvention ==
    (call.op = "integrate" /\ call.kernel.called /\ behaviour.is_finite_strain) =>
        \A p \in 1..data_manager.n :
            call.kernel.K_in[p] =
                << ConsistentTangentFlag,
                   StressMeasureFlag(behaviour.options.stress_measure),
                   TangentOperatorFlag(behaviour.options.tangent_operator) >>

---------------------------------------------------------------------------
(* C4: set_initial_state_dict is a partial update.  It never raises on a    *)
(* key that names no variable; the columns of every gradient, flux and      *)
(* internal state variable whose name is not a key of the dictionary are    *)
(* the same before and after, in both states; so a dictionary with one key  *)
(* changes that variable's columns only, and an empty dictionary or one of  *)
(* undeclared keys changes nothing (and returns normally even before a     *)
(* data manager is set).                                                    *)

C4_SetIsPartialUpdate ==
    /\ [][(IsCall("set_initial_state_dict") /\ data_manager.exists) =>
          LET state == call'.arg.d IN
          /\ call'.raised = "none"
          /\ \A k \in 1..3 :
               LET f == Families(behaviour)[k] IN
               \A i \in 1..Len(f.names) :
                  f.names[i] \notin DOMAIN state =>
                     /\ VariableColumns(data_manager'.s0, f, i)
                           = VariableColumns(data_manager.s0, f, i)
                     /\ VariableColumns(data_manager'.s1, f, i)
                           = VariableColumns(data_manager.s1, f, i)
          /\ data_manager'.s0.material_properties
                = data_manager.s0.material_properties
          /\ data_manager'.s0.external_state_variables
                = data_manager.s0.external_state_variables
          /\ data_manager'.K = data_manager.K
          /\ (DOMAIN state \cap StateNames(behaviour) = {}) =>
                data_manager' = data_manager]_vars
    /\ [][(IsCall("set_initial_state_dict")
             /\ DOMAIN call'.arg.d \cap StateNames(behaviour) = {}) =>
            (call'.raised = "none" /\ data_manager' = data_manager)]_vars

\* a dictionary with one declared key, written while another variable of
\* the previous state holds non-zero values
C4_Witness ==
    /\ call.op = "set_initial_state_dict"
    /\ call.raised = "none"
    /\ Cardinality(DOMAIN call.arg.d) = 1
    /\ DOMAIN call.arg.d \subseteq StateNames(behaviour)
    /\ \E k \in 1..3 :
         LET f == Families(behaviour)[k] IN
         \E i \in 1..Len(f.names) :
            /\ f.names[i] \notin DOMAIN call.arg.d
            /\ VariableColumns(data_manager.s0, f, i)
                  # Zeros(data_manager.n, f.sizes[i])

---------------------------------------------------------------------------
(* C5, as stated: the value written for a variable X by the dictionary      *)
(* write is the value the dictionary read then returns for X.               *)

C5_WriteThenReadRoundTrip ==
    (call.op = "set_initial_state_dict" /\ call.raised = "none") =>
        \A X \in DOMAIN call.arg.d \cap StateNames(behaviour) :
            get_final_state_dict(behaviour, data_manager)[X] = call.arg.d[X]

(* C5, amended: the caller chooses no buffer.  set_initial_state_dict       *)
(* always writes the previous state s0: after it the columns of every       *)
(* key X in s0 hold the value given, and what get_final_state_dict returns  *)
(* is what it returned before the write (so also after an empty write);     *)
(* get_final_state_dict always reads the current state s1.                  *)

C5_WritePreviousReadCurrent ==
    [][/\ (IsCall("set_initial_state_dict") /\ data_manager.exists) =>
            /\ \A k \in 1..3 :
                 LET f == Families(behaviour)[k] IN
                 \A i \in 1..Len(f.names) :
                    f.names[i] \in DOMAIN call'.arg.d =>
                       VariableColumns(data_manager'.s0, f, i)
                          = call'.arg.d[f.names[i]]
            /\ get_final_state_dict(behaviour, data_manager')
                  = get_final_state_dict(behaviour, data_manager)
            /\ data_manager'.s1 = data_manager.s1
       /\ (IsCall("get_final_state_dict") /\ data_manager.exists) =>
            /\ call'.raised = "none"
            /\ \A k \in 1..3 :
                 LET f == Families(behaviour)[k] IN
                 \A i \in 1..Len(f.names) :
                    call'.ret.d[f.names[i]] = VariableColumns(data_manager.s1, f, i)
            /\ data_manager' = data_manager]_vars

\* a value written for a variable whose current-state columns differ from it
C5_Witness ==
    /\ call.op = "set_initial_state_dict"
    /\ call.raised = "none"
    /\ \E k \in 1..3 :
         LET f == Families(behaviour)[k] IN
         \E i \in 1..Len(f.names) :
            /\ f.names[i] \in DOMAIN call.arg.d
            /\ VariableColumns(data_manager.s0, f, i) = call.arg.d[f.names[i]]
            /\ VariableColumns(data_manager.s1, f, i) # call.arg.d[f.names[i]]
            /\ VariableColumns(data_manager.s1, f, i)
                  # Zeros(data_manager.n, f.sizes[i])

---------------------------------------------------------------------------
(* C6, as stated: no call on an allocated data manager (integrate, the      *)
(* dictionary write and read, the property and external state variable      *)
(* setters) changes the previous-state values of the gradients, fluxes and  *)
(* internal state variables; the class has no commit call of its own.       *)

C6_NoCallChangesPreviousValues ==
    [][(data_manager.exists /\ ~IsCall("set_data_manager")) =>
          PreviousValues(data_manager') = PreviousValues(data_manager)]_vars

(* C6, amended: the previous-state values change only through               *)
(* set_initial_state_dict, which writes them by design, and through         *)
(* set_data_manager, which allocates both states anew; integrate,           *)
(* get_final_state_dict, the property and external state variable setters,  *)
(* load_behaviour, update_parameters and the rotations of the arrays the    *)
(* class hands out never change them.                                       *)

C6_OnlyInitialStateOrAllocation ==
    [][PreviousValues(data_manager') # PreviousValues(data_manager) =>
          \/ IsCall("set_initial_state_dict")
          \/ IsCall("set_data_manager")]_vars

\* an integration, a read or a setter call made while the previous state
\* holds values written by set_initial_state_dict
C6_Witness ==
    /\ call.op \in {"integrate", "get_final_state_dict", "update_material_property",
                    "update_external_state_variable",
                    "initialize_external_state_variable"}
    /\ call.raised = "none"
    /\ PreviousValues(data_manager)
          # PreviousValues(MaterialDataManager(behaviour, data_manager.n))

---------------------------------------------------------------------------
(* C7: update_material_property stores the value given (a scalar for every *)
(* point, or one value per point) in the previous and in the current state, *)
(* which then agree on the property; update_external_state_variable stores  *)
(* it in the current state only and initialize_external_state_variable in   *)
(* the previous state only, the other state keeping what it had.            *)

\* the value the points read from what a state manager stores
ValueAt(stored, p) ==
    IF stored.storage = "uniform" THEN stored.value ELSE stored.values[p]

\* the value the caller gave for point p
GivenAt(values, p) == IF values.py = "ndarray" THEN values.data[p] ELSE values.v

C7_PropertyInBothStatesVariableInOne ==
    [][/\ (IsCall("update_material_property") /\ call'.raised = "none") =>
            /\ call'.arg.name \in DOMAIN data_manager'.s0.material_properties
            /\ call'.arg.name \in DOMAIN data_manager'.s1.material_properties
            /\ \A p \in 1..data_manager'.n :
                 /\ ValueAt(data_manager'.s0.material_properties[call'.arg.name], p)
                       = GivenAt(call'.arg.values, p)
                 /\ ValueAt(data_manager'.s1.material_properties[call'.arg.name], p)
                       = GivenAt(call'.arg.values, p)
            /\ data_manager'.s0.material_properties[call'.arg.name]
                  = data_manager'.s1.material_properties[call'.arg.name]
       /\ (IsCall("update_external_state_variable") /\ call'.raised = "none") =>
            /\ call'.arg.name \in DOMAIN data_manager'.s1.external_state_variables
            /\ \A p \in 1..data_manager'.n :
                 ValueAt(data_manager'.s1.external_state_variables[call'.arg.name], p)
                    = GivenAt(call'.arg.values, p)
            /\ data_manager'.s0 = data_manager.s0
       /\ (IsCall("initialize_external_state_variable") /\ call'.raised = "none") =>
            /\ call'.arg.name \in DOMAIN data_manager'.s0.external_state_variables
            /\ \A p \in 1..data_manager'.n :
                 ValueAt(data_manager'.s0.external_state_variables[call'.arg.name], p)
                    = GivenAt(call'.arg.values, p)
            /\ data_manager'.s1 = data_manager.s1]_vars

\* a per-point property written into a data manager of several points whose
\* two states differ
C7_Witness ==
    /\ call.op = "update_material_property"
    /\ call.raised = "none"
    /\ call.arg.values.py = "ndarray"
    /\ data_manager.n = NPoints
    /\ data_manager.s0.gradients # data_manager.s1.gradients
    /\ data_manager.s0.material_properties[call.arg.name]
          = data_manager.s1.material_properties[call.arg.name]

---------------------------------------------------------------------------
(* C10: get_final_state_dict returns one entry for every declared gradient, *)
(* flux and internal state variable; the entry of the i-th variable of a    *)
(* family is the columns o+1 .. o+size_i of that family in the current      *)
(* state, o being the sum of the sizes before it, so that the ranges of a   *)
(* family are disjoint and cover its width; set_initial_state_dict writes   *)
(* the same ranges of the previous state.                                   *)

C10_EntriesAreTheOffsetRanges ==
    /\ (call.op = "get_final_state_dict" /\ call.raised = "none") =>
          /\ DOMAIN call.ret.d = StateNames(behaviour)
          /\ \A k \in 1..3 :
               LET f == Families(behaviour)[k] IN
               /\ \A i \in 1..Len(f.names) :
                    /\ call.ret.d[f.names[i]] =
                          [p \in 1..data_manager.n |->
                              [j \in 1..f.sizes[i] |->
                                  data_manager.s1[f.field][p][Offset(f.sizes, i) + j]]]
                    /\ \A i2 \in 1..Len(f.names) :
                          i < i2 => Offset(f.sizes, i) + f.sizes[i] <= Offset(f.sizes, i2)
               /\ \A p \in 1..data_manager.n :
                    Len(data_manager.s1[f.field][p]) = Offset(f.sizes, Len(f.sizes) + 1)
    /\ (call.op = "set_initial_state_dict" /\ call.raised = "none") =>
          \A k \in 1..3 :
             LET f == Families(behaviour)[k] IN
             \A i \in 1..Len(f.names) :
                f.names[i] \in DOMAIN call.arg.d =>
                   \A p \in 1..data_manager.n : \A j \in 1..f.sizes[i] :
                      data_manager.s0[f.field][p][Offset(f.sizes, i) + j]
                         = call.arg.d[f.names[i]][p][j]

\* a read of a behaviour with three internal state variables, after an
\* integration has left values in the current state
C10_Witness ==
    /\ call.op = "get_final_state_dict"
    /\ call.raised = "none"
    /\ Len(behaviour.internal_state_variables) = 3
    /\ Cardinality(DOMAIN call.ret.d) = 5
    /\ \E X \in DOMAIN call.ret.d, Y \in DOMAIN call.ret.d :
          /\ Len(call.ret.d[X][1]) = 1 /\ Len(call.ret.d[Y][1]) = 1
          /\ call.ret.d[X] # call.ret.d[Y]

---------------------------------------------------------------------------
(* C8: for a behaviour whose declared names hold brackets, no name any      *)
(* accessor returns (the six name lists, the keys of gradients, fluxes,     *)
(* internal_state_variables and variables, the names of the tangent block   *)
(* pairs) holds a bracket, and each name list keeps the number and order    *)
(* of the declared names.                                                   *)

\* the declared names behind each name list
DeclaredNames(b, a) ==
    CASE a = "parameter_names" -> b.params
      [] a = "material_property_names" -> RawNames(b.mps)
      [] a = "external_state_variable_names" -> RawNames(b.external_state_variables)
      [] a = "internal_state_variable_names" -> RawNames(b.internal_state_variables)
      [] a = "gradient_names" -> RawNames(b.gradients)
      [] a = "flux_names" -> RawNames(b.thermodynamic_forces)

NameLists == { "parameter_names", "material_property_names",
               "external_state_variable_names", "internal_state_variable_names",
               "gradient_names", "flux_names" }
NameDicts == { "gradients", "fluxes", "internal_state_variables", "variables" }

\* a declared name without its brackets, character by character
Sanitized(name, i) ==
    LET kept == {j \in 1..Len(name) : name[j] \notin {"[", "]"}}
    IN  CHOOSE j \in kept : Cardinality({m \in kept : m <= j}) = i

C8_NoAccessorReturnsBrackets ==
    /\ call.op \in NameLists =>
          /\ Len(call.ret.items) = Len(DeclaredNames(behaviour, call.op))
          /\ \A i \in 1..Len(call.ret.items) :
                LET raw == DeclaredNames(behaviour, call.op)[i]
                    got == call.ret.items[i] IN
                /\ ~HasBracket(got)
                /\ Len(got) = Cardinality({j \in 1..Len(raw) : raw[j] \notin {"[", "]"}})
                /\ \A m \in 1..Len(got) : got[m] = raw[Sanitized(raw, m)]
    /\ call.op \in NameDicts =>
          \A name \in DOMAIN call.ret.d : ~HasBracket(name)
    /\ call.op = "tangent_block_names" =>
          \A i \in 1..Len(call.ret.items) :
             ~HasBracket(call.ret.items[i][1]) /\ ~HasBracket(call.ret.items[i][2])
    /\ call.op = "tangent_blocks" =>
          \A pair \in DOMAIN call.ret.d : ~HasBracket(pair[1]) /\ ~HasBracket(pair[2])

---------------------------------------------------------------------------
(* C9, as stated: tangent_blocks has exactly one key per declared tangent   *)
(* operator block and the value under a key is the product of the sizes of  *)
(* the two variables of the block.                                          *)

C9_BlockValueIsProduct ==
    call.op = "tangent_blocks" =>
        /\ Cardinality(DOMAIN call.ret.d) = Len(behaviour.tangent_operator_blocks)
        /\ \A i \in 1..Len(behaviour.tangent_operator_blocks) :
              LET t == behaviour.tangent_operator_blocks[i] IN
              /\ << t[1].name, t[2].name >> \in DOMAIN call.ret.d
              /\ call.ret.d[<< t[1].name, t[2].name >>] = PyInt(t[1].size * t[2].size)

(* C9, amended: tangent_blocks has exactly one key per declared tangent     *)
(* operator block, the pair of the declared names of its two variables, and *)
(* the value under it is the pair (size of the first, size of the second),  *)
(* not their product.                                                       *)

C9_BlockValueIsSizePair ==
    call.op = "tangent_blocks" =>
        /\ Cardinality(DOMAIN call.ret.d) = Len(behaviour.tangent_operator_blocks)
        /\ \A i \in 1..Len(behaviour.tangent_operator_blocks) :
              LET t == behaviour.tangent_operator_blocks[i] IN
              /\ << t[1].name, t[2].name >> \in DOMAIN call.ret.d
              /\ call.ret.d[<< t[1].name, t[2].name >>]
                    = PyTuple(<< t[1].size, t[2].size >>)

\* the mapping of a behaviour with several blocks, one of them not square
C9_Witness ==
    /\ call.op = "tangent_blocks"
    /\ Cardinality(DOMAIN call.ret.d) = 4
    /\ \E pair \in DOMAIN call.ret.d :
          call.ret.d[pair].items[1] # call.ret.d[pair].items[2]

=============================================================================
